---- MODULE Spec2Model ----
(***************************************************************************)
(* The three Lambda handlers of the document-management backend:           *)
(*   file_embedding_processing  (ingestion: S3 -> chunks -> Qdrant)        *)
(*   response_generation        (query: Qdrant search -> context -> LLM)   *)
(*   upload_files_and_delete_files (S3 upload / whole-context delete)      *)
(* Strings are sequences of one-character strings, so that f-strings,      *)
(* os.path.join and prefix / suffix tests are computed, not assumed.       *)
(* A text is a sequence of lexemes: WS (one whitespace character) or a     *)
(* word (a maximal run of non-whitespace characters).                      *)
(***************************************************************************)
EXTENDS Integers, Sequences, FiniteSets, TLC

VARIABLES bucket, collections, ingest, query, upl

vars == <<bucket, collections, ingest, query, upl>>

\* ------------------------------------------------------------ bounds
\* Objects in the bucket in an initial state.
MaxObjects == 3
\* Page size of one list_objects_v2 response (1000 in S3), scaled down.
MaxKeys == 2
\* Points in a collection in an initial state of the query specification.
MaxPoints == 2

\* ------------------------------------------------------------ strings
Ascii ==
  [ch \in {".", "/", "_", "a", "b", "c", "d", "f", "m", "n", "p", "s",
           "t", "v", "x", "y", "z"} |->
     CASE ch = "." -> 46 [] ch = "/" -> 47 [] ch = "_" -> 95
       [] ch = "a" -> 97 [] ch = "b" -> 98 [] ch = "c" -> 99
       [] ch = "d" -> 100 [] ch = "f" -> 102 [] ch = "m" -> 109
       [] ch = "n" -> 110 [] ch = "p" -> 112 [] ch = "s" -> 115
       [] ch = "t" -> 116 [] ch = "v" -> 118 [] ch = "x" -> 120
       [] ch = "y" -> 121 [] ch = "z" -> 122]

StartsWith(s, prefix) ==
  /\ Len(prefix) <= Len(s)
  /\ SubSeq(s, 1, Len(prefix)) = prefix

EndsWith(s, suffix) ==
  /\ Len(suffix) <= Len(s)
  /\ SubSeq(s, Len(s) - Len(suffix) + 1, Len(s)) = suffix

\* UTF-8 binary order of two keys, the order S3 lists keys in.
KeyLess(a, b) ==
  \E i \in 1..Len(b) :
     /\ \A j \in 1..(i - 1) : j <= Len(a) /\ a[j] = b[j]
     /\ (i > Len(a) \/ Ascii[a[i]] < Ascii[b[i]])

RECURSIVE SortKeys(_)
SortKeys(S) ==
  IF S = {} THEN <<>>
  ELSE LET k == CHOOSE x \in S : \A o \in S \ {x} : KeyLess(x, o)
       IN  <<k>> \o SortKeys(S \ {k})

\* os.path.join of two components.
PathJoin2(path, b) ==
  IF b # <<>> /\ b[1] = "/" THEN b
  ELSE IF path = <<>> \/ path[Len(path)] = "/" THEN path \o b
  ELSE path \o <<"/">> \o b

RECURSIVE PathJoin(_)
PathJoin(parts) ==
  IF Len(parts) = 1 THEN parts[1]
  ELSE PathJoin(<<PathJoin2(parts[1], parts[2])>> \o SubSeq(parts, 3, Len(parts)))

\* A request body without one of its fields.
Drop(body, f) == [x \in DOMAIN body \ {f} |-> body[x]]

\* ------------------------------------------------------------ S3
BucketName == <<"b">>

\* s3.list_objects_v2(Bucket, Prefix): the keys with the prefix, in key order,
\* at most one page of them; the response has no 'Contents' when it is <<>>.
ListObjectsV2(bkt, prefix) ==
  LET all == SortKeys({k \in DOMAIN bkt : StartsWith(k, prefix)})
  IN  SubSeq(all, 1, IF Len(all) < MaxKeys THEN Len(all) ELSE MaxKeys)

HasContentsAlways(response) == TRUE

\* 'Contents' in response
HasContents(response) == response # <<>>

\* An object body: bytes no parser can read (corrupt), or bytes whose text is
\* `text`, a text being represented by the sequence of chunks the splitter
\* yields for it (<<>> is the empty text).
T1 == <<"t1">>
T2 == <<"t2">>
Bodies ==
  { [corrupt |-> TRUE,  text |-> <<>>],
    [corrupt |-> FALSE, text |-> <<>>],
    [corrupt |-> FALSE, text |-> <<T1, T2>>] }

SupportedSuffixes ==
  { <<".", "c", "s", "v">>, <<".", "x", "l", "s", "x">>, <<".", "x", "l", "s">>,
    <<".", "p", "d", "f">>, <<".", "p", "p", "t", "x">>, <<".", "d", "o", "c", "x">> }

\* read_file_from_s3: None (ok = FALSE) when get_object or the parser raises
\* or the suffix is not a supported one, else the text.
read_file_from_s3(bkt, s3_key) ==
  IF s3_key \notin DOMAIN bkt THEN [ok |-> FALSE, text |-> <<>>]
  ELSE IF \E sfx \in SupportedSuffixes : EndsWith(s3_key, sfx)
       THEN IF bkt[s3_key].corrupt THEN [ok |-> FALSE, text |-> <<>>]
            ELSE [ok |-> TRUE, text |-> bkt[s3_key].text]
       ELSE [ok |-> FALSE, text |-> <<>>]

\* `if text:` None and the empty text are falsy.
Truthy(r) == r.ok /\ r.text # <<>>

\* ------------------------------------------------------------ ingestion
IngestProcs == {1, 2}

Users == { <<"a">>, <<"a", "_", "b">> }
Contexts == { <<"c">>, <<"b", "_", "c">> }
Name == <<"n">>

FileNames == { <<"x", ".", "p", "d", "f">>, <<"y", ".", "t", "x", "t">>,
               <<"z", ".", "c", "s", "v">> }

\* file_key of the upload handler: os.path.join(collection_prefix, file_name)
FileKey(user_id, context_id, name, file_name) ==
  PathJoin(<<PathJoin(<<user_id, context_id, name, <<>> >>), file_name>>)

IngestKeys ==
  { FileKey(<<"a">>, <<"c">>, Name, f) : f \in FileNames }
    \cup { FileKey(<<"a", "_", "b">>, <<"c">>, Name, <<"x", ".", "p", "d", "f">>),
           FileKey(<<"a">>, <<"b", "_", "c">>, Name, <<"x", ".", "p", "d", "f">>) }

IngestBody(u, c) ==
  [bucket_name |-> BucketName, user_id |-> u, context_id |-> c, name |-> Name]

IngestFields == {"bucket_name", "user_id", "context_id", "name"}

IngestBodies ==
  { IngestBody(u, c) : u \in Users, c \in Contexts }
    \cup { Drop(IngestBody(<<"a">>, <<"c">>), f) : f \in IngestFields }

NoCalls ==
  [s3list |-> 0, s3get |-> 0, qlist |-> 0, qcreate |-> 0, embed |-> 0, qwrite |-> 0]

IngestIdle ==
  [pc |-> "idle", body |-> <<>>, files |-> <<>>, collection_name |-> <<>>,
   idx |-> 1, combined_embeddings |-> <<>>, combined_chunks |-> <<>>,
   statusCode |-> 0, calls |-> NoCalls, written |-> <<>>, conflict |-> FALSE]

\* collection_prefix = f"{user_id}/{context_id}/{name}"
IngestPrefix(body) ==
  body.user_id \o <<"/">> \o body.context_id \o <<"/">> \o body.name

CollectionNameAlwaysColl(user_id, context_id, files) ==
  <<"c", "o", "l", "l", "_">> \o user_id \o <<"_">> \o context_id

\* f"coll_{user_id}_{context_id}" if len(files) > 1 else f"one_{user_id}_{context_id}"
CollectionName(user_id, context_id, files) ==
  IF Len(files) > 1
  THEN <<"c", "o", "l", "l", "_">> \o user_id \o <<"_">> \o context_id
  ELSE <<"o", "n", "e", "_">> \o user_id \o <<"_">> \o context_id

\* collection_exists_safe: the name is among client.get_collections()
collection_exists_safe(colls, collection_name) == collection_name \in DOMAIN colls

\* chunk_text: the text is represented by its chunks
chunk_text(text) == text

\* embedding_model.embed_documents([chunk])[0]
Embed(chunk) == <<"vec", chunk>>

\* generate_embeddings: one embedding call per chunk, in chunk order
generate_embeddings(text) ==
  LET chunks == chunk_text(text)
  IN  [embeddings |-> [i \in 1..Len(chunks) |-> Embed(chunks[i])], chunks |-> chunks]

PayloadsFromOne(embeddings, chunks, metadata) ==
  [i \in 1..(IF Len(embeddings) < Len(chunks) THEN Len(embeddings) ELSE Len(chunks)) |->
     [context_id |-> metadata.context_id, user_id |-> metadata.user_id,
      file_count |-> metadata.file_count, chunk_index |-> i, text |-> chunks[i]]]

\* store_embeddings_in_qdrant, lines 95-101: enumerate(zip(embeddings, chunks))
\* numbers from 0; position i of a sequence is Python's index i - 1.
Payloads(embeddings, chunks, metadata) ==
  [i \in 1..(IF Len(embeddings) < Len(chunks) THEN Len(embeddings) ELSE Len(chunks)) |->
     [context_id |-> metadata.context_id, user_id |-> metadata.user_id,
      file_count |-> metadata.file_count, chunk_index |-> i - 1, text |-> chunks[i]]]

\* client.upload_collection(vectors, payload): one point per vector, with the
\* payload at the same position.
Points(embeddings, payloads) ==
  [i \in 1..(IF Len(embeddings) < Len(payloads) THEN Len(embeddings) ELSE Len(payloads)) |->
     [vector |-> embeddings[i], payload |-> payloads[i]]]

Bump(calls, f) == [calls EXCEPT ![f] = @ + 1]

\* lambda_handler, lines 115-135: parse the body (a missing field is a KeyError,
\* caught by the handler's except), list the prefix, 404 on no 'Contents',
\* else name the collection.
IngestStart(p) ==
  /\ ingest[p].pc = "idle"
  /\ \E body \in IngestBodies :
       IF ~(IngestFields \subseteq DOMAIN body)
       THEN ingest' = [ingest EXCEPT ![p].pc = "done", ![p].body = body,
                                     ![p].statusCode = 500]
       ELSE LET response == ListObjectsV2(bucket, IngestPrefix(body))
            IN  IF ~HasContents(response)
                THEN ingest' = [ingest EXCEPT ![p].pc = "done", ![p].body = body,
                                  ![p].calls = Bump(@, "s3list"),
                                  ![p].statusCode = 404]
                ELSE ingest' = [ingest EXCEPT ![p].pc = "exists", ![p].body = body,
                                  ![p].calls = Bump(@, "s3list"),
                                  ![p].files = response,
                                  ![p].collection_name =
                                     CollectionName(body.user_id, body.context_id, response)]
  /\ UNCHANGED <<bucket, collections, query, upl>>

\* create_vectorstore, line 40: the existence check
IngestCollectionExists(p) ==
  /\ ingest[p].pc = "exists"
  /\ ingest' = [ingest EXCEPT
       ![p].pc = IF collection_exists_safe(collections, ingest[p].collection_name)
                 THEN "files" ELSE "create",
       ![p].calls = Bump(@, "qlist")]
  /\ UNCHANGED <<bucket, collections, query, upl>>

\* create_vectorstore, lines 41-49: client.create_collection raises when the
\* name exists; the except logs and re-raises, and lambda_handler's except
\* turns that into a 500.
IngestCreateCollection(p) ==
  /\ ingest[p].pc = "create"
  /\ IF ingest[p].collection_name \in DOMAIN collections
     THEN /\ ingest' = [ingest EXCEPT ![p].pc = "done", ![p].statusCode = 500,
                          ![p].conflict = TRUE, ![p].calls = Bump(@, "qcreate")]
          /\ UNCHANGED collections
     ELSE /\ collections' = (ingest[p].collection_name :> <<>>) @@ collections
          /\ ingest' = [ingest EXCEPT ![p].pc = "files",
                          ![p].calls = Bump(@, "qcreate")]
  /\ UNCHANGED <<bucket, query, upl>>

\* lambda_handler, lines 141-148: one file of the loop
IngestProcessFile(p) ==
  /\ ingest[p].pc = "files"
  /\ ingest[p].idx <= Len(ingest[p].files)
  /\ LET text == read_file_from_s3(bucket, ingest[p].files[ingest[p].idx])
         g == generate_embeddings(text.text)
     IN  IF Truthy(text)
         THEN ingest' = [ingest EXCEPT
                ![p].idx = @ + 1,
                ![p].combined_embeddings = @ \o g.embeddings,
                ![p].combined_chunks = @ \o g.chunks,
                ![p].calls = [@ EXCEPT !.s3get = @ + 1,
                                       !.embed = @ + Len(g.chunks)]]
         ELSE ingest' = [ingest EXCEPT ![p].idx = @ + 1,
                                       ![p].calls = Bump(@, "s3get")]
  /\ UNCHANGED <<bucket, collections, query, upl>>

\* lambda_handler, lines 150-161, and store_embeddings_in_qdrant: the one
\* bulk write; upload_collection raises on a collection that does not exist.
IngestStore(p) ==
  /\ ingest[p].pc = "files"
  /\ ingest[p].idx > Len(ingest[p].files)
  /\ LET metadata == [context_id |-> ingest[p].body.context_id,
                      user_id |-> ingest[p].body.user_id,
                      file_count |-> Len(ingest[p].files)]
         payloads == Payloads(ingest[p].combined_embeddings,
                              ingest[p].combined_chunks, metadata)
         name == ingest[p].collection_name
     IN  IF name \in DOMAIN collections
         THEN /\ collections' = [collections EXCEPT ![name] =
                    @ \o Points(ingest[p].combined_embeddings, payloads)]
              /\ ingest' = [ingest EXCEPT ![p].pc = "done", ![p].statusCode = 200,
                              ![p].written = payloads,
                              ![p].calls = Bump(@, "qwrite")]
         ELSE /\ ingest' = [ingest EXCEPT ![p].pc = "done", ![p].statusCode = 500,
                              ![p].calls = Bump(@, "qwrite")]
              /\ UNCHANGED collections
  /\ UNCHANGED <<bucket, query, upl>>

\* ------------------------------------------------------------ query
MAX_CONTEXT_TOKENS == 7500

WS == " "
Whitespace == {" ", "\n"}

\* n words "1" .. "n", `gap` separator characters `sep` between neighbours.
MkText(n, gap, sep) ==
  IF n = 0 THEN <<>>
  ELSE [j \in 1..(n + (n - 1) * gap) |->
          IF (j - 1) % (gap + 1) = 0 THEN ToString((j - 1) \div (gap + 1) + 1) ELSE sep]

IsWord(x) == x \notin Whitespace

\* text.split(): the words, in order
Split(text) == SelectSeq(text, IsWord)

\* " ".join(tokens)
Join(tokens) ==
  IF tokens = <<>> THEN <<>>
  ELSE [j \in 1..(2 * Len(tokens) - 1) |->
          IF j % 2 = 1 THEN tokens[(j + 1) \div 2] ELSE WS]

\* " ".join(texts) of whole texts
RECURSIVE JoinTexts(_)
JoinTexts(texts) ==
  IF texts = <<>> THEN <<>>
  ELSE IF Len(texts) = 1 THEN texts[1]
  ELSE texts[1] \o <<WS>> \o JoinTexts(Tail(texts))

truncate_context_always_joined(text, max_tokens) ==
  LET tokens == Split(text)
  IN  Join(SubSeq(tokens, 1, IF Len(tokens) > max_tokens THEN max_tokens ELSE Len(tokens)))

truncate_context(text, max_tokens) ==
  LET tokens == Split(text)
  IN  IF Len(tokens) > max_tokens
      THEN Join(SubSeq(tokens, 1, max_tokens))
      ELSE text

NoTextFound == <<"No", WS, "text", WS, "found">>

\* result.payload.get('text', 'No text found')
PayloadText(payload) ==
  IF "text" \in DOMAIN payload THEN payload.text ELSE NoTextFound

NeverFalsy(relevant_context) == FALSE

\* `if not relevant_context:` the empty string is falsy
Falsy(relevant_context) == relevant_context = <<>>

QueryCollection == <<"o", "n", "e", "_", "a", "_", "c">>
OtherCollection == <<"c", "o", "l", "l", "_", "a", "_", "c">>
Question == <<"q">>

QueryFields == {"collection_name", "question"}

QueryBody(c) == [collection_name |-> c, question |-> Question]

QueryBodies ==
  { QueryBody(QueryCollection), QueryBody(OtherCollection) }
    \cup { Drop(QueryBody(QueryCollection), f) : f \in QueryFields }

QueryTexts ==
  { MkText(0, 1, " "), MkText(1, 1, " "),
    MkText(MAX_CONTEXT_TOKENS \div 2, 1, " "),
    MkText(MAX_CONTEXT_TOKENS, 1, " "), MkText(MAX_CONTEXT_TOKENS, 2, " "),
    MkText(MAX_CONTEXT_TOKENS + 1, 1, " "), MkText(MAX_CONTEXT_TOKENS + 1, 1, "\n") }

\* A stored point: the payload ingestion writes, or one without a text field.
QueryPoints ==
  { [vector |-> Embed(t),
     payload |-> [context_id |-> <<"c">>, user_id |-> <<"a">>, file_count |-> 1,
                  chunk_index |-> 0, text |-> t]] : t \in QueryTexts }
    \cup { [vector |-> Embed(<<>>), payload |-> [chunk_index |-> 0]] }

SeqsUpTo(S, n) == UNION { [1..k -> S] : k \in 0..n }

\* client.search: the stored points, ranked; the ranking is the index's.
Rankings(points) ==
  { [i \in 1..Len(points) |-> points[f[i]]] :
      f \in { g \in [1..Len(points) -> 1..Len(points)] :
                \A i, j \in 1..Len(points) : i # j => g[i] # g[j] } }

QueryIdle ==
  [pc |-> "idle", body |-> <<>>, search_results |-> <<>>, context_text |-> <<>>,
   relevant_context |-> <<>>, statusCode |-> 0,
   calls |-> [embed |-> 0, search |-> 0, completion |-> 0]]

\* lambda_handler, lines 86-89: a missing field is a KeyError, caught by the
\* handler's except: 500.
QueryStart ==
  /\ query.pc = "idle"
  /\ \E body \in QueryBodies :
       IF ~(QueryFields \subseteq DOMAIN body)
       THEN query' = [query EXCEPT !.pc = "done", !.body = body, !.statusCode = 500]
       ELSE query' = [query EXCEPT !.pc = "embed", !.body = body]
  /\ UNCHANGED <<bucket, collections, ingest, upl>>

\* fetch_relevant_context, line 28: generate_embedding_for_question
QueryEmbed ==
  /\ query.pc = "embed"
  /\ query' = [query EXCEPT !.pc = "search", !.calls = Bump(@, "embed")]
  /\ UNCHANGED <<bucket, collections, ingest, upl>>

\* fetch_relevant_context, lines 31-44, and lambda_handler, lines 93-98: the
\* search (which raises on a collection that does not exist), the joined
\* context, its truncation, and the 404 on an empty context.
QuerySearch ==
  /\ query.pc = "search"
  /\ IF query.body.collection_name \notin DOMAIN collections
     THEN query' = [query EXCEPT !.pc = "done", !.statusCode = 500,
                                 !.calls = Bump(@, "search")]
     ELSE \E results \in Rankings(collections[query.body.collection_name]) :
            LET context_text ==
                  JoinTexts([i \in 1..Len(results) |-> PayloadText(results[i].payload)])
                truncated == truncate_context(context_text, MAX_CONTEXT_TOKENS)
            IN  query' = [query EXCEPT
                  !.pc = IF Falsy(truncated) THEN "done" ELSE "answer",
                  !.statusCode = IF Falsy(truncated) THEN 404 ELSE 0,
                  !.search_results = results,
                  !.context_text = context_text,
                  !.relevant_context = truncated,
                  !.calls = Bump(@, "search")]
  /\ UNCHANGED <<bucket, collections, ingest, upl>>

\* lambda_handler, lines 100-106: get_ans, one completion request
QueryAnswer ==
  /\ query.pc = "answer"
  /\ query' = [query EXCEPT !.pc = "done", !.statusCode = 200,
                            !.calls = Bump(@, "completion")]
  /\ UNCHANGED <<bucket, collections, ingest, upl>>

\* ------------------------------------------------------------ upload / delete
MAX_TOTAL_SIZE_MB == 15
MAX_TOTAL_SIZE_BYTES == MAX_TOTAL_SIZE_MB * 1024 * 1024

UploadUsers == { <<"a">>, <<"b">> }
UploadContext == <<"c">>
UploadName == <<"n">>
\* f"default-{uuid.uuid4()}", a fresh name
DefaultName == <<"d">>

\* One entry of body['files']: the name and the decoded content (its size and
\* the object body it becomes).
UploadFiles ==
  { [file_name |-> <<"x", ".", "p", "d", "f">>,
     file_content |-> [size |-> 1, body |-> [corrupt |-> FALSE, text |-> <<T1, T2>>]]],
    [file_name |-> <<"y", ".", "t", "x", "t">>,
     file_content |-> [size |-> MAX_TOTAL_SIZE_BYTES,
                       body |-> [corrupt |-> FALSE, text |-> <<>>]]] }

UploadBase(u) == [bucket_name |-> BucketName, user_id |-> u, context_id |-> UploadContext]

With(body, f, v) == (f :> v) @@ body

\* Requests: with and without name, action and files; an empty user_id; a
\* missing bucket_name, user_id or context_id.
UploadBodies ==
  LET named == { UploadBase(u) : u \in UploadUsers }
                 \cup { With(UploadBase(u), "name", UploadName) : u \in UploadUsers }
                 \cup { With(UploadBase(<<"a">>), "name", <<>>) }
      acted == named \cup { With(b, "action", <<"d", "e", "l", "e", "t", "e">>) : b \in named }
      filed == acted \cup { With(b, "files", fs) : b \in named, fs \in SeqsUpTo(UploadFiles, 2) }
  IN  filed
        \cup { Drop(With(UploadBase(<<"a">>), "action", <<"d", "e", "l", "e", "t", "e">>), f) :
                 f \in {"bucket_name", "user_id", "context_id"} }
        \cup { Drop(UploadBase(<<"a">>), f) : f \in {"bucket_name", "user_id", "context_id"} }
        \cup { [UploadBase(<<"a">>) EXCEPT !.user_id = <<>>] }

\* body.get(f): None or the empty string is falsy in all([...])
Get(body, f) == IF f \in DOMAIN body THEN body[f] ELSE <<>>

\* body.get('name', f"default-{uuid.uuid4()}")
GetName(body) == IF "name" \in DOMAIN body THEN body.name ELSE DefaultName

RECURSIVE SumSizes(_)
SumSizes(files) ==
  IF files = <<>> THEN 0 ELSE files[1].file_content.size + SumSizes(Tail(files))

UploadIdle ==
  [pc |-> "idle", body |-> <<>>, objects_to_delete |-> <<>>, idx |-> 1,
   statusCode |-> 0, calls |-> [s3list |-> 0, s3delete |-> 0, s3put |-> 0],
   before |-> <<>>]

\* delete_collection, line 97
DeletePrefix(user_id, context_id) == PathJoin(<<user_id, context_id, <<>> >>)

\* lambda_handler, lines 13-51: the checks before any S3 call
UploadStart ==
  /\ upl.pc = "idle"
  /\ \E body \in UploadBodies :
       LET started == [UploadIdle EXCEPT !.body = body, !.before = bucket]
       IN  IF \/ Get(body, "bucket_name") = <<>> \/ Get(body, "user_id") = <<>>
              \/ Get(body, "context_id") = <<>> \/ GetName(body) = <<>>
           THEN upl' = [started EXCEPT !.pc = "done", !.statusCode = 400]
           ELSE IF Get(body, "action") = <<"d", "e", "l", "e", "t", "e">>
           THEN upl' = [started EXCEPT !.pc = "delete"]
           ELSE IF "files" \notin DOMAIN body
           THEN upl' = [started EXCEPT !.pc = "done", !.statusCode = 400]
           ELSE IF SumSizes(body.files) > MAX_TOTAL_SIZE_BYTES
           THEN upl' = [started EXCEPT !.pc = "done", !.statusCode = 400]
           ELSE upl' = [started EXCEPT !.pc = "put"]
  /\ UNCHANGED <<bucket, collections, ingest, query>>

\* lambda_handler, lines 54-74: one file of the loop
UploadPutObject ==
  /\ upl.pc = "put"
  /\ upl.idx <= Len(upl.body.files)
  /\ LET file_data == upl.body.files[upl.idx]
         file_key == FileKey(upl.body.user_id, upl.body.context_id,
                             GetName(upl.body), file_data.file_name)
     IN  bucket' = (file_key :> file_data.file_content.body) @@ bucket
  /\ upl' = [upl EXCEPT !.idx = @ + 1, !.calls = Bump(@, "s3put")]
  /\ UNCHANGED <<collections, ingest, query>>

\* lambda_handler, lines 76-83
UploadReturn ==
  /\ upl.pc = "put"
  /\ upl.idx > Len(upl.body.files)
  /\ upl' = [upl EXCEPT !.pc = "done", !.statusCode = 200]
  /\ UNCHANGED <<bucket, collections, ingest, query>>

\* delete_collection, lines 97-117: list the context prefix; 404 on no 'Contents'
DeleteList ==
  /\ upl.pc = "delete"
  /\ LET objects_to_delete ==
           ListObjectsV2(bucket, DeletePrefix(upl.body.user_id, upl.body.context_id))
     IN  IF HasContents(objects_to_delete)
         THEN upl' = [upl EXCEPT !.pc = "delete_objects",
                                 !.objects_to_delete = objects_to_delete,
                                 !.calls = Bump(@, "s3list")]
         ELSE upl' = [upl EXCEPT !.pc = "done", !.statusCode = 404,
                                 !.calls = Bump(@, "s3list")]
  /\ UNCHANGED <<bucket, collections, ingest, query>>

\* delete_collection, lines 104-112: s3.delete_objects of the listed keys
DeleteObjects ==
  /\ upl.pc = "delete_objects"
  /\ LET delete_keys == { upl.objects_to_delete[i] : i \in 1..Len(upl.objects_to_delete) }
     IN  bucket' = [k \in DOMAIN bucket \ delete_keys |-> bucket[k]]
  /\ upl' = [upl EXCEPT !.pc = "done", !.statusCode = 200, !.calls = Bump(@, "s3delete")]
  /\ UNCHANGED <<collections, ingest, query>>

\* The handler has returned; the next invocation starts.
UploadNextCall ==
  /\ upl.pc = "done"
  /\ upl' = UploadIdle
  /\ UNCHANGED <<bucket, collections, ingest, query>>

\* Buckets of at most MaxObjects objects, each key one the upload handler writes.
Buckets(keys) ==
  UNION { [K -> Bodies] : K \in {S \in SUBSET keys : Cardinality(S) <= MaxObjects} }

Init ==
  /\ bucket \in Buckets(IngestKeys)
  /\ collections = <<>>
  /\ ingest = [p \in IngestProcs |-> IngestIdle]
  /\ query = QueryIdle
  /\ upl = UploadIdle

Next ==
  \E p \in IngestProcs :
     \/ IngestStart(p)
     \/ IngestCollectionExists(p)
     \/ IngestCreateCollection(p)
     \/ IngestProcessFile(p)
     \/ IngestStore(p)

Spec == Init /\ [][Next]_vars

InitQuery ==
  /\ bucket = <<>>
  /\ collections \in { (QueryCollection :> pts) : pts \in SeqsUpTo(QueryPoints, MaxPoints) }
  /\ ingest = [p \in IngestProcs |-> IngestIdle]
  /\ query = QueryIdle
  /\ upl = UploadIdle

NextQuery ==
  \/ QueryStart
  \/ QueryEmbed
  \/ QuerySearch
  \/ QueryAnswer

SpecQuery == InitQuery /\ [][NextQuery]_vars

InitUpload ==
  /\ bucket = <<>>
  /\ collections = <<>>
  /\ ingest = [p \in IngestProcs |-> IngestIdle]
  /\ query = QueryIdle
  /\ upl = UploadIdle

NextUpload ==
  \/ UploadStart
  \/ UploadPutObject
  \/ UploadReturn
  \/ DeleteList
  \/ DeleteObjects
  \/ UploadNextCall

SpecUpload == InitUpload /\ [][NextUpload]_vars

\* ------------------------------------------------------------ claims
Returned(p) == ingest[p].pc = "done"

\* The chunks the listed files yield, in listing order then chunk order; a
\* file with no text yields none.
RECURSIVE ExpectedChunks(_, _)
ExpectedChunks(bkt, files) ==
  IF files = <<>> THEN <<>>
  ELSE (LET r == read_file_from_s3(bkt, files[1])
        IN  IF Truthy(r) THEN r.text ELSE <<>>)
         \o ExpectedChunks(bkt, Tail(files))

ExpectedName(p) ==
  IF Len(ingest[p].files) = 1
  THEN <<"o", "n", "e", "_">> \o ingest[p].body.user_id \o <<"_">> \o ingest[p].body.context_id
  ELSE <<"c", "o", "l", "l", "_">> \o ingest[p].body.user_id \o <<"_">> \o ingest[p].body.context_id

InCollection(name, point) ==
  /\ name \in DOMAIN collections
  /\ \E i \in 1..Len(collections[name]) : collections[name][i] = point

\* C1: an ingestion call whose create_collection failed because the name
\* already existed does not end with a 500: it goes on to its bulk write and
\* returns 200.
C1_CreateConflictIsBenign ==
  \A p \in IngestProcs :
     (Returned(p) /\ ingest[p].conflict) =>
        (ingest[p].statusCode = 200 /\ ingest[p].calls.qwrite = 1)

\* C2: the collection an ingestion call creates and writes to is
\* one_{user_id}_{context_id} when exactly one file was listed and
\* coll_{user_id}_{context_id} when two or more were, whatever number of the
\* listed files yielded text.
C2_CollectionIdentity ==
  \A p \in IngestProcs :
     ingest[p].files # <<>> =>
        /\ ingest[p].collection_name = ExpectedName(p)
        /\ ingest[p].statusCode = 200 =>
              \A k \in 1..Len(ingest[p].written) :
                 InCollection(ExpectedName(p),
                              [vector |-> Embed(ingest[p].written[k].text),
                               payload |-> ingest[p].written[k]])
        /\ ingest[p].calls.qcreate = 1 /\ ~ingest[p].conflict =>
              ExpectedName(p) \in DOMAIN collections

\* Two files were listed, only one of them yielded text, and the call wrote
\* to the coll_ collection.
C2_Witness ==
  \E p \in IngestProcs :
     /\ ingest[p].statusCode = 200
     /\ Len(ingest[p].files) = 2
     /\ Len(ingest[p].written) = 2
     /\ ~Truthy(read_file_from_s3(bucket, ingest[p].files[1]))
     /\ SubSeq(ingest[p].collection_name, 1, 5) = <<"c", "o", "l", "l", "_">>

\* C3: the payloads of a call's bulk write carry chunk_index 0, 1, ..., in
\* listing order of the files and then chunk order, one per chunk the listed
\* files yield, each with the text of that chunk, and they are what the
\* collection stores.
C3_ChunkIndexContiguous ==
  \A p \in IngestProcs :
     ingest[p].statusCode = 200 =>
        LET expected == ExpectedChunks(bucket, ingest[p].files)
        IN  /\ Len(ingest[p].written) = Len(expected)
            /\ \A k \in 1..Len(expected) :
                  /\ ingest[p].written[k].chunk_index = k - 1
                  /\ ingest[p].written[k].text = expected[k]
                  /\ InCollection(ingest[p].collection_name,
                                  [vector |-> Embed(expected[k]),
                                   payload |-> ingest[p].written[k]])

\* Two listed files of two chunks each: the second file's chunks are 2 and 3.
C3_Witness ==
  \E p \in IngestProcs :
     /\ ingest[p].statusCode = 200
     /\ Len(ingest[p].files) = 2
     /\ Len(ingest[p].written) = 4
     /\ ingest[p].written[3].chunk_index = 2

\* C4: a request without a required field ends with a 400 and no external
\* call made, in the ingestion, the query and the upload handler.
C4_MissingFieldIs400 ==
  /\ \A p \in IngestProcs :
        (Returned(p) /\ ~(IngestFields \subseteq DOMAIN ingest[p].body)) =>
           (ingest[p].statusCode = 400 /\ ingest[p].calls = NoCalls)
  /\ (query.pc = "done" /\ ~(QueryFields \subseteq DOMAIN query.body)) =>
        (query.statusCode = 400 /\ query.calls = QueryIdle.calls)
  /\ (upl.pc = "done"
        /\ ~({"bucket_name", "user_id", "context_id"} \subseteq DOMAIN upl.body)) =>
        (upl.statusCode = 400 /\ upl.calls = UploadIdle.calls)

\* C5: an ingestion call whose prefix matches no stored object returns 404
\* and has made no collection listing, no collection creation, no embedding
\* call and no index write.
C5_EmptyPrefixIs404 ==
  \A p \in IngestProcs :
     (/\ ingest[p].pc # "idle"
      /\ IngestFields \subseteq DOMAIN ingest[p].body
      /\ ~\E k \in DOMAIN bucket : StartsWith(k, IngestPrefix(ingest[p].body))) =>
        /\ Returned(p)
        /\ ingest[p].statusCode = 404
        /\ ingest[p].calls = [NoCalls EXCEPT !.s3list = 1]
        /\ ingest[p].collection_name = <<>>

\* A call returned 404 while the other call had created a collection.
C5_Witness ==
  \E p \in IngestProcs :
     /\ ingest[p].statusCode = 404
     /\ ingest[p].calls.s3list = 1
     /\ DOMAIN collections # {}

\* C6: a query whose search returns no result ends with 404 and no completion
\* request; a call makes at most one completion request, and only with a
\* non-empty context.
C6_NoResultsNoCompletion ==
  /\ (/\ query.calls.search = 1
      /\ query.body.collection_name \in DOMAIN collections
      /\ query.search_results = <<>>) =>
        (query.pc = "done" /\ query.statusCode = 404 /\ query.calls.completion = 0)
  /\ query.calls.completion <= 1
  /\ query.calls.completion = 1 =>
        (query.calls.search = 1 /\ query.relevant_context # <<>>)

\* A search that found the collection empty ended the call with 404.
C6_Witness ==
  /\ query.statusCode = 404
  /\ query.calls.search = 1
  /\ query.search_results = <<>>

\* C7: a delete that returns 200 leaves no object under
\* {user_id}/{context_id}/ and removes nothing outside it; a delete on a
\* context with no object returns 404 and removes nothing.
C7_DeleteRemovesWholeContext ==
  (upl.pc = "done" /\ Get(upl.body, "action") = <<"d", "e", "l", "e", "t", "e">>
     /\ upl.statusCode # 400) =>
     LET prefix == upl.body.user_id \o <<"/">> \o upl.body.context_id \o <<"/">>
         under(bkt) == {k \in DOMAIN bkt : StartsWith(k, prefix)}
     IN  /\ upl.statusCode = 200 => under(bucket) = {}
         /\ \A k \in DOMAIN upl.before \ under(upl.before) : k \in DOMAIN bucket
         /\ under(upl.before) = {} <=> upl.statusCode = 404
         /\ upl.statusCode = 404 => bucket = upl.before

\* C8: a call with at least one listed file returns 200 after exactly one
\* bulk write, every listed file having been read in listing order, files
\* without text contributing no chunk.
C8_PartialSuccess ==
  \A p \in IngestProcs :
     (Returned(p) /\ ingest[p].files # <<>>) =>
        /\ ingest[p].statusCode = 200
        /\ ingest[p].calls.qwrite = 1
        /\ ingest[p].calls.s3get = Len(ingest[p].files)
        /\ ingest[p].combined_chunks = ExpectedChunks(bucket, ingest[p].files)
        /\ ingest[p].collection_name \in DOMAIN collections

\* C9: a context of more than 7500 tokens is cut to its first 7500 tokens, in
\* order; a context of at most 7500 tokens is passed on unchanged.
C9_TruncateContext ==
  (query.calls.search = 1 /\ query.body.collection_name \in DOMAIN collections) =>
     LET tokens == Split(query.context_text)
     IN  IF Len(tokens) > 7500
         THEN /\ Len(Split(query.relevant_context)) = 7500
              /\ Split(query.relevant_context) = SubSeq(tokens, 1, 7500)
         ELSE query.relevant_context = query.context_text

\* Two results were joined into a context of more than 7500 tokens.
C9_Witness ==
  /\ query.statusCode = 200
  /\ Len(query.search_results) = 2
  /\ Len(Split(query.context_text)) > 7500

\* C10: two ingestion calls with different (user_id, context_id) pairs never
\* write their embedding records to the same collection.
C10_TenantIsolation ==
  \A p, q \in IngestProcs :
     (/\ ingest[p].statusCode = 200 /\ ingest[q].statusCode = 200
      /\ ingest[p].written # <<>> /\ ingest[q].written # <<>>
      /\ <<ingest[p].body.user_id, ingest[p].body.context_id>>
           # <<ingest[q].body.user_id, ingest[q].body.context_id>>) =>
        ingest[p].collection_name # ingest[q].collection_name

====
